---- MODULE Spec2Model ----
(***************************************************************************)
(* State-machine model of src/main.py (RAGFlow chat assistant, Streamlit). *)
(*                                                                         *)
(* One Streamlit script run is main(): init_session_state, init_ragflow,   *)
(* sidebar_content, main_content.  A run is started by one user event (a   *)
(* click on the new-chat button, a submitted prompt, a checkbox toggle, an *)
(* edited API key) or by st.rerun().  The position inside the run is pc.   *)
(* One script runs at a time.  A widget event that arrives while a run is  *)
(* under way stops that run at its next st.* call (the control exception   *)
(* is no Exception, so no except clause of the script sees it) and starts  *)
(* a new run with the event.                                               *)
(* Texts are sequences of tokens, so that length, slicing and containment  *)
(* of texts are computed and not assumed.                                  *)
(***************************************************************************)
EXTENDS Integers, Sequences, FiniteSets, TLC

\* ---------------------------------------------------------------- bounds
MaxMessages  == 4    \* a prompt is accepted only while the history has room
MaxSnapshots == 2    \* snapshots one streamed answer may carry

\* ------------------------------------------------------------ vocabulary
None == <<>>
Some(x) == <<x>>

AllDatasets == <<"kb1", "kb2">>    \* the knowledge bases, in listing order
UniqueIds == {"1a2b3c4d", "5e6f7a8b"}  \* values str(uuid.uuid4())[:8] may take
ApiKeys == {"", "key"}
Prompts == {<<"q">>}
Contents == {<<"H">>, <<"H", "e">>}
StreamErrors == {"ConnectionError"}
FieldNames == {"document_name", "similarity", "content", "document_id"}

Range(s) == {s[i] : i \in 1..Len(s)}

Datasets == Range(AllDatasets)

\* The members of S in listing order.
InListingOrder(S) == SelectSeq(AllDatasets, LAMBDA d : d \in S)

IsPrefix(s, t) == Len(s) <= Len(t) /\ SubSeq(t, 1, Len(s)) = s

\* t occurs in s as a contiguous piece (Python's  t in s  on strings).
Contains(s, t) ==
    \E i \in 0..(Len(s) - Len(t)) : SubSeq(s, i + 1, i + Len(t)) = t

VARIABLES
    \* st.session_state
    ragflow_api_key, active_chat, active_session, messages,
    selected_datasets, available_datasets,
    \* environment: the resolved RAGFLOW_API_KEY of .env / os.environ, and the
    \* chat names that exist at the backend
    env_api_key, chats,
    \* the running script: position and locals
    pc, rag_object, button, prompt, api_key_input,
    session, response, full_response, references, error_shown,
    \* history variables (observers only, never read by an action's guard)
    reachable, runCalls, snapshot, nChats, nSessions, usedSessions,
    received, stream_failed, cancelled,
    \* reference normalizer under test (SpecNormalize)
    ref, normalized

state_vars == <<ragflow_api_key, active_chat, active_session, messages,
                selected_datasets, available_datasets>>
env_vars == <<env_api_key, chats>>
local_vars == <<rag_object, button, prompt, api_key_input, session, response,
                full_response, references, error_shown>>
ghost_vars == <<reachable, runCalls, snapshot, nChats, nSessions, usedSessions,
                received, stream_failed, cancelled>>
norm_vars == <<ref, normalized>>
vars == <<state_vars, env_vars, pc, local_vars, ghost_vars, norm_vars>>

\* ------------------------------------------------ pure parts of the code

\* init_ragflow: the environment's key wins over the one in the session state.
resolve_api_key(env_key, state_key) ==
    IF env_key # "" THEN env_key ELSE state_key

\* generate_unique_name: "{prefix}_{timestamp}_{uuid[:8]}".  The clock and the
\* uuid are outside the program: any of the values may come back.
generate_unique_name(prefix) == {<<prefix, u>> : u \in UniqueIds}

\* Mutant of create_chat: the chat is bound to every listed knowledge base
\* instead of the selected ones.
create_chat_Mut(name, dataset_ids) ==
    [name |-> name, dataset_ids |-> available_datasets]

\* rag_object.create_chat(name=..., dataset_ids=...): the chat the backend returns.
create_chat(name, dataset_ids) == [name |-> name, dataset_ids |-> dataset_ids]

\* chat.create_session(session_name)
create_session(chat, name) == [name |-> name, chat |-> chat.name]

\* Mutant of GateOpen: the selection is not looked at.
GateOpen_Mut(client, selected) == client

\* Line 209:  if rag_object and st.session_state.selected_datasets
GateOpen(client, selected) == client /\ selected # <<>>

\* Raw references as the backend hands them over: a dict or an object, each
\* carrying any subset of the four fields.
FieldDefault(k) ==
    CASE k = "document_name" -> "unknown_document"
      [] k = "similarity"    -> 0
      [] k = "content"       -> ""
      [] k = "document_id"   -> ""

DocNames == {"a.pdf", "b.pdf"}
Similarities == {50, 87}

RawFields ==
    { [k \in D |-> CASE k = "document_name" -> dn
                     [] k = "similarity"    -> sim
                     [] k = "content"       -> "text"
                     [] k = "document_id"   -> "d1"] :
        D \in SUBSET FieldNames, dn \in DocNames, sim \in Similarities }

RawRefs == {[shape |-> sh, fields |-> f] : sh \in {"dict", "object"}, f \in RawFields}

\* format_reference: a dict is returned as it is; an object is read with getattr
\* and a default per field.
format_reference(r) ==
    IF r.shape = "dict"
    THEN r.fields
    ELSE [k \in FieldNames |->
            IF k \in DOMAIN r.fields THEN r.fields[k] ELSE FieldDefault(k)]

\* Reference lists the modelled backend attaches to a snapshot.
RefLists == { <<>>,
              <<[shape |-> "object", fields |-> [k \in {"content"} |-> "text"]]>> }

\* One streamed response object: content is the whole answer so far.
Snapshots ==
    {[content |-> c, has_reference |-> FALSE, reference |-> <<>>] : c \in Contents}
    \cup
    {[content |-> c, has_reference |-> TRUE, reference |-> r] :
        c \in Contents, r \in RefLists}

\* Lines 166-168: references of the last response object.
final_references(resp) ==
    IF resp # None /\ resp[1].has_reference /\ resp[1].reference # <<>>
    THEN [i \in 1..Len(resp[1].reference) |-> format_reference(resp[1].reference[i])]
    ELSE <<>>

\* Mutant of accumulate: the snapshot is added to the text instead of
\* replacing it.
accumulate_Mut(so_far, resp) == so_far \o resp.content

\* Line 160: full_response = response.content
accumulate(so_far, resp) == resp.content

\* Line 173: the text returned when the stream raises e; the text accumulated
\* so far is not part of it.
error_text(e) == <<"SorryErrorOccurred:", e>>

NoticeText == <<"PleaseSelectAKnowledgeBaseAndCheckTheConnection">>

\* Lines 204, 238-240, 257-260: the turns appended to the history.
user_message(p) == [role |-> "user", content |-> p]

\* Mutant of assistant_message: the reference key is always set.
assistant_message_Mut(text, refs) ==
    [role |-> "assistant", content |-> text, reference |-> refs]

assistant_message(text, refs) ==
    IF refs # <<>>
    THEN [role |-> "assistant", content |-> text, reference |-> refs]
    ELSE [role |-> "assistant", content |-> text]

notice_message == [role |-> "assistant", content |-> NoticeText]

\* Mutant of messages_append: the turn is put in front.
messages_append_Mut(msgs, m) == <<m>> \o msgs

\* st.session_state.messages.append(...)
messages_append(msgs, m) == Append(msgs, m)

\* ------------------------------------------------------------ the program

\* init_session_state on the first run of a browser session; the script is
\* about to run for the first time, with no widget event.
InitState ==
    /\ ragflow_api_key = ""
    /\ active_chat = None
    /\ active_session = None
    /\ messages = <<>>
    /\ selected_datasets = <<>>
    /\ available_datasets = <<>>
    /\ env_api_key \in ApiKeys
    /\ chats = {}
    /\ rag_object = FALSE
    /\ button = FALSE
    /\ prompt = None
    /\ api_key_input = ""
    /\ session = None
    /\ response = None
    /\ full_response = <<>>
    /\ references = <<>>
    /\ error_shown = "none"
    /\ reachable = FALSE
    /\ runCalls = {}
    /\ snapshot = <<>>
    /\ nChats = 0
    /\ nSessions = 0
    /\ usedSessions = {}
    /\ received = <<>>
    /\ stream_failed = FALSE
    /\ cancelled = FALSE

Init ==
    /\ InitState
    /\ pc = "rerun"
    /\ ref = None
    /\ normalized = None

\* The locals of a run that has ended are gone.
EndRun(next_pc) ==
    /\ pc' = next_pc
    /\ button' = FALSE
    /\ prompt' = None
    /\ session' = None
    /\ response' = None
    /\ full_response' = <<>>
    /\ references' = <<>>
    /\ received' = <<>>
    /\ stream_failed' = FALSE
    /\ cancelled' = FALSE

\* main(), lines 263-269: a run starts.  clicked, text and typed_key are the
\* values the button, the chat input and the API-key text input return in this
\* run; init_ragflow resolves the key and builds the client.
StartRun(clicked, text, typed_key) ==
    LET api_key == resolve_api_key(env_api_key, ragflow_api_key) IN
    /\ ragflow_api_key' = api_key
    /\ rag_object' = (api_key # "")
    /\ button' = clicked
    /\ prompt' = text
    /\ api_key_input' = IF typed_key = None THEN api_key ELSE typed_key[1]
    /\ pc' = IF clicked THEN "new_chat" ELSE "sidebar"
    /\ error_shown' = "none"
    /\ runCalls' = {}
    /\ UNCHANGED <<active_chat, active_session, messages, selected_datasets,
                   available_datasets, env_vars, session, response,
                   full_response, references, reachable, snapshot, nChats,
                   nSessions, usedSessions, received, stream_failed, cancelled, norm_vars>>

\* The script runs again by itself: first run, or after st.rerun().
Rerun ==
    /\ pc = "rerun"
    /\ StartRun(FALSE, None, None)

\* A checkbox was toggled: a run with no button and no prompt.
ToggleCheckbox ==
    /\ pc = "idle"
    /\ StartRun(FALSE, None, None)

\* The new-chat button was clicked (line 72).
ClickNewChat ==
    /\ pc = "idle"
    /\ StartRun(TRUE, None, None)

\* A prompt was submitted in the chat input (line 202).
SubmitPrompt ==
    /\ pc = "idle"
    /\ Len(messages) + 2 <= MaxMessages
    /\ \E p \in Prompts : StartRun(FALSE, p, None)

\* Another API key was typed into the configuration form (line 106).
EditApiKey ==
    /\ pc = "idle"
    /\ \E k \in ApiKeys :
         /\ k # resolve_api_key(env_api_key, ragflow_api_key)
         /\ StartRun(FALSE, None, Some(k))

\* Mutant of create_new_chat: the session is not reset.
create_new_chat_KeepsSession ==
    /\ pc = "new_chat"
    /\ messages' = <<>>
    /\ active_chat' = None
    /\ pc' = "sidebar"
    /\ snapshot' = <<>>
    /\ nChats' = 0
    /\ nSessions' = 0
    /\ usedSessions' = {}
    /\ UNCHANGED <<ragflow_api_key, active_session, selected_datasets,
                   available_datasets, env_vars, local_vars, reachable,
                   runCalls, received, stream_failed, cancelled, norm_vars>>

\* Mutant of create_new_chat: the selection is cleared as well.
create_new_chat_Mut ==
    /\ pc = "new_chat"
    /\ messages' = <<>>
    /\ active_chat' = None
    /\ active_session' = None
    /\ selected_datasets' = <<>>
    /\ pc' = "sidebar"
    /\ snapshot' = <<>>
    /\ nChats' = 0
    /\ nSessions' = 0
    /\ usedSessions' = {}
    /\ UNCHANGED <<ragflow_api_key, available_datasets, env_vars, local_vars,
                   reachable, runCalls, received, stream_failed, cancelled, norm_vars>>

\* create_new_chat, lines 57-68.
create_new_chat ==
    /\ pc = "new_chat"
    /\ messages' = <<>>
    /\ active_chat' = None
    /\ active_session' = None
    /\ pc' = "sidebar"
    /\ snapshot' = <<>>
    /\ nChats' = 0
    /\ nSessions' = 0
    /\ usedSessions' = {}
    /\ UNCHANGED <<ragflow_api_key, selected_datasets, available_datasets,
                   env_vars, local_vars, reachable, runCalls, received,
                   stream_failed, cancelled, norm_vars>>

\* Lines 104-117, the configuration form at the end of sidebar_content: a key
\* that differs from the resolved one is stored, written to .env (set_key) and
\* the script is run again (st.rerun), so main_content is not reached.
ConfigForm ==
    IF api_key_input # ragflow_api_key
    THEN /\ ragflow_api_key' = api_key_input
         /\ env_api_key' = api_key_input
         /\ EndRun("rerun")
    ELSE /\ pc' = "main"
         /\ UNCHANGED <<ragflow_api_key, env_api_key, button, prompt, session,
                        response, full_response, references, received,
                        stream_failed, cancelled>>

\* sidebar_content, lines 79-94: list_datasets answered.  listed is the
\* listing and checked the checkboxes that return True in this run (checkbox
\* values are widget state, an input of the run); the selection is replaced.
sidebar_list_ok ==
    /\ pc = "sidebar"
    /\ rag_object
    /\ \E listed \in SUBSET Datasets : \E checked \in SUBSET listed :
         /\ available_datasets' = InListingOrder(listed)
         /\ selected_datasets' = InListingOrder(checked)
    /\ reachable' = TRUE
    /\ ConfigForm
    /\ UNCHANGED <<active_chat, active_session, messages, chats, rag_object,
                   api_key_input, error_shown, runCalls, snapshot, nChats,
                   nSessions, usedSessions, norm_vars>>

\* sidebar_content, lines 96-97: list_datasets raised; only an error is shown.
sidebar_list_fail ==
    /\ pc = "sidebar"
    /\ rag_object
    /\ reachable' = FALSE
    /\ ConfigForm
    /\ UNCHANGED <<active_chat, active_session, messages, selected_datasets,
                   available_datasets, chats, rag_object, api_key_input,
                   error_shown, runCalls, snapshot, nChats, nSessions,
                   usedSessions, norm_vars>>

\* sidebar_content, lines 98-99: there is no client; only a warning is shown.
sidebar_no_client ==
    /\ pc = "sidebar"
    /\ ~rag_object
    /\ reachable' = FALSE
    /\ ConfigForm
    /\ UNCHANGED <<active_chat, active_session, messages, selected_datasets,
                   available_datasets, chats, rag_object, api_key_input,
                   error_shown, runCalls, snapshot, nChats, nSessions,
                   usedSessions, norm_vars>>

\* main_content, line 202 with no prompt: the history is drawn, the run ends.
main_content_render ==
    /\ pc = "main"
    /\ prompt = None
    /\ EndRun("idle")
    /\ reachable' = FALSE
    /\ UNCHANGED <<state_vars, env_vars, rag_object, api_key_input, error_shown,
                   runCalls, snapshot, nChats, nSessions,
                   usedSessions, norm_vars>>

\* main_content, lines 202-206: the user turn is appended.
main_content_prompt ==
    /\ pc = "main"
    /\ prompt # None
    /\ messages' = messages_append(messages, user_message(prompt))
    /\ pc' = "gate"
    /\ UNCHANGED <<ragflow_api_key, active_chat, active_session,
                   selected_datasets, available_datasets, env_vars, local_vars,
                   ghost_vars, norm_vars>>

\* main_content, lines 254-260: the gate is closed; a notice turn is appended.
gate_reject ==
    /\ pc = "gate"
    /\ ~GateOpen(rag_object, selected_datasets)
    /\ messages' = messages_append(messages, notice_message)
    /\ EndRun("idle")
    /\ reachable' = FALSE
    /\ UNCHANGED <<ragflow_api_key, active_chat, active_session,
                   selected_datasets, available_datasets, env_vars, rag_object,
                   api_key_input, error_shown, runCalls, snapshot,
                   nChats, nSessions, usedSessions, norm_vars>>

\* Lines 247-253: an exception of the try block; an error is shown, nothing
\* is appended, the run ends.
Except(kind) ==
    /\ error_shown' = kind
    /\ reachable' = FALSE
    /\ EndRun("idle")

\* Mutant of ensure_create_chat: the chat object is stored before the backend
\* has answered, so a refused creation leaves it behind.
ensure_create_chat_StoresFirst ==
    /\ pc = "gate"
    /\ GateOpen(rag_object, selected_datasets)
    /\ active_chat = None
    /\ runCalls' = runCalls \cup {"create_chat"}
    /\ \E chat_name \in generate_unique_name("Chat") :
         \/ /\ chat_name \in chats
            /\ Except("duplicate")
            /\ active_chat' = Some(create_chat(chat_name, selected_datasets))
            /\ UNCHANGED <<chats, snapshot, nChats>>
         \/ /\ Except("error")
            /\ active_chat' = Some(create_chat(chat_name, selected_datasets))
            /\ UNCHANGED <<chats, snapshot, nChats>>
         \/ /\ chat_name \notin chats
            /\ active_chat' = Some(create_chat(chat_name, selected_datasets))
            /\ chats' = chats \cup {chat_name}
            /\ snapshot' = selected_datasets
            /\ nChats' = nChats + 1
            /\ pc' = "create_session"
            /\ UNCHANGED <<button, prompt, session, response, full_response,
                           references, received, stream_failed, cancelled, error_shown,
                           reachable>>
    /\ UNCHANGED <<ragflow_api_key, active_session, messages, selected_datasets,
                   available_datasets, env_api_key, rag_object, api_key_input,
                   nSessions, usedSessions, norm_vars>>

\* main_content, lines 213-220: no active chat; create_chat is called with a
\* generated name and the current selection.  The backend refuses a name it
\* already has, and may fail for any other reason.
ensure_create_chat ==
    /\ pc = "gate"
    /\ GateOpen(rag_object, selected_datasets)
    /\ active_chat = None
    /\ runCalls' = runCalls \cup {"create_chat"}
    /\ \E chat_name \in generate_unique_name("Chat") :
         \/ /\ chat_name \in chats
            /\ Except("duplicate")
            /\ UNCHANGED <<active_chat, chats, snapshot, nChats>>
         \/ /\ Except("error")
            /\ UNCHANGED <<active_chat, chats, snapshot, nChats>>
         \/ /\ chat_name \notin chats
            /\ active_chat' = Some(create_chat(chat_name, selected_datasets))
            /\ chats' = chats \cup {chat_name}
            /\ snapshot' = selected_datasets
            /\ nChats' = nChats + 1
            /\ pc' = "create_session"
            /\ UNCHANGED <<button, prompt, session, response, full_response,
                           references, received, stream_failed, cancelled, error_shown,
                           reachable>>
    /\ UNCHANGED <<ragflow_api_key, active_session, messages, selected_datasets,
                   available_datasets, env_api_key, rag_object, api_key_input,
                   nSessions, usedSessions, norm_vars>>

\* main_content, lines 222-225: create_session under the new chat.
ensure_create_session ==
    /\ pc = "create_session"
    /\ runCalls' = runCalls \cup {"create_session"}
    /\ \E session_name \in generate_unique_name("Session") :
         \/ /\ Except("error")
            /\ UNCHANGED <<active_session, nSessions>>
         \/ /\ active_session' = Some(create_session(active_chat[1], session_name))
            /\ session' = active_session'
            /\ nSessions' = nSessions + 1
            /\ pc' = "ask"
            /\ UNCHANGED <<button, prompt, response, full_response, references,
                           received, stream_failed, cancelled, error_shown, reachable>>
    /\ UNCHANGED <<ragflow_api_key, active_chat, messages, selected_datasets,
                   available_datasets, env_vars, rag_object, api_key_input,
                   snapshot, nChats, usedSessions, norm_vars>>

\* main_content, lines 226-227: there is an active chat; its session is used.
ensure_existing ==
    /\ pc = "gate"
    /\ GateOpen(rag_object, selected_datasets)
    /\ active_chat # None
    /\ session' = active_session
    /\ pc' = "ask"
    /\ UNCHANGED <<state_vars, env_vars, rag_object, button, prompt,
                   api_key_input, response, full_response, references,
                   error_shown, ghost_vars, norm_vars>>

\* process_stream_response, lines 153-158: session.ask(prompt, stream=True).
\* With no session object the attribute lookup raises inside the try block and
\* the error text is returned (line 173).
ask ==
    /\ pc = "ask"
    /\ usedSessions' = usedSessions \cup {session}
    /\ IF session = None
       THEN /\ full_response' = error_text("AttributeError")
            /\ references' = <<>>
            /\ stream_failed' = TRUE
            /\ pc' = "append"
            /\ UNCHANGED <<response, runCalls>>
       ELSE /\ full_response' = <<>>
            /\ response' = None
            /\ runCalls' = runCalls \cup {"ask"}
            /\ pc' = "stream"
            /\ UNCHANGED <<references, stream_failed>>
    /\ UNCHANGED <<state_vars, env_vars, rag_object, button, prompt,
                   api_key_input, session, error_shown, reachable, snapshot,
                   nChats, nSessions, received, cancelled, norm_vars>>

\* Lines 158-161: the next response object of the stream arrives.
stream_fragment ==
    /\ pc = "stream"
    /\ Len(received) < MaxSnapshots
    /\ \E snap \in Snapshots :
         /\ response' = Some(snap)
         /\ full_response' = accumulate(full_response, snap)
         /\ received' = Append(received, snap.content)
    /\ UNCHANGED <<state_vars, env_vars, pc, rag_object, button, prompt,
                   api_key_input, session, references, error_shown, reachable,
                   runCalls, snapshot, nChats, nSessions, usedSessions,
                   stream_failed, cancelled, norm_vars>>

\* Lines 163-170: the stream is exhausted; text and references are returned.
stream_end ==
    /\ pc = "stream"
    /\ references' = final_references(response)
    /\ pc' = "append"
    /\ UNCHANGED <<state_vars, env_vars, rag_object, button, prompt,
                   api_key_input, session, response, full_response,
                   error_shown, ghost_vars, norm_vars>>

\* Lines 171-173: the stream raised; the error text and no references are
\* returned.
stream_fail ==
    /\ pc = "stream"
    /\ \E e \in StreamErrors : full_response' = error_text(e)
    /\ references' = <<>>
    /\ stream_failed' = TRUE
    /\ pc' = "append"
    /\ UNCHANGED <<state_vars, env_vars, rag_object, button, prompt,
                   api_key_input, session, response, error_shown, reachable,
                   runCalls, snapshot, nChats, nSessions, usedSessions,
                   received, cancelled, norm_vars>>

\* main_content, lines 237-245: the assistant turn is appended and the script
\* is run again (st.rerun).
append_assistant ==
    /\ pc = "append"
    /\ messages' = messages_append(messages,
                                   assistant_message(full_response, references))
    /\ EndRun("rerun")
    /\ reachable' = FALSE
    /\ UNCHANGED <<ragflow_api_key, active_chat, active_session,
                   selected_datasets, available_datasets, env_vars, rag_object,
                   api_key_input, error_shown, runCalls, snapshot,
                   nChats, nSessions, usedSessions, norm_vars>>

\* The positions of a run that are followed by an st.* call before the next
\* assignment to the session state: the sidebar widgets (72-94), st.title
\* (178), st.chat_message (205, 210, 255), st.empty (230) and
\* message_placeholder.markdown (161, 163).  Between create_chat and
\* create_session (216-225) and between the return of
\* process_stream_response and the append (233-242) there is none.
InterruptPoints == {"sidebar", "main", "gate", "ask", "stream"}

\* The run under way is stopped and its locals are dropped; a new run starts
\* with the widget values clicked and text.
AbandonRun(clicked, text) ==
    LET api_key == resolve_api_key(env_api_key, ragflow_api_key) IN
    /\ pc \in InterruptPoints
    /\ ragflow_api_key' = api_key
    /\ rag_object' = (api_key # "")
    /\ button' = clicked
    /\ prompt' = text
    /\ api_key_input' = api_key
    /\ pc' = IF clicked THEN "new_chat" ELSE "sidebar"
    /\ error_shown' = "none"
    /\ runCalls' = {}
    /\ reachable' = FALSE
    /\ session' = None
    /\ response' = None
    /\ full_response' = <<>>
    /\ references' = <<>>
    /\ received' = <<>>
    /\ stream_failed' = FALSE
    /\ UNCHANGED <<active_chat, active_session, messages, selected_datasets,
                   available_datasets, env_vars, snapshot, nChats, nSessions,
                   usedSessions, norm_vars>>

\* Mutant of InterruptNewChat: the click is served while the run under way
\* goes on; the conversation is reset under the running consume.
InterruptNewChat_Mut ==
    /\ pc \in InterruptPoints
    /\ cancelled' = (pc = "stream")
    /\ messages' = <<>>
    /\ active_chat' = None
    /\ active_session' = None
    /\ snapshot' = <<>>
    /\ nChats' = 0
    /\ nSessions' = 0
    /\ usedSessions' = {}
    /\ UNCHANGED <<ragflow_api_key, selected_datasets, available_datasets,
                   env_vars, pc, local_vars, reachable, runCalls, received,
                   stream_failed, norm_vars>>

\* The new-chat button is clicked while a run is under way (line 72); when
\* the run was consuming a stream, that consume is cancelled.
InterruptNewChat ==
    /\ cancelled' = (pc = "stream")
    /\ AbandonRun(TRUE, None)

\* A checkbox is toggled or a prompt is submitted while a run is under way.
InterruptWidget ==
    /\ cancelled' = FALSE
    /\ \/ AbandonRun(FALSE, None)
       \/ /\ Len(messages) + 2 <= MaxMessages
          /\ \E p \in Prompts : AbandonRun(FALSE, p)

Next ==
    \/ Rerun
    \/ ToggleCheckbox
    \/ ClickNewChat
    \/ SubmitPrompt
    \/ EditApiKey
    \/ create_new_chat
    \/ sidebar_list_ok
    \/ sidebar_list_fail
    \/ sidebar_no_client
    \/ main_content_render
    \/ main_content_prompt
    \/ gate_reject
    \/ ensure_create_chat
    \/ ensure_create_session
    \/ ensure_existing
    \/ ask
    \/ stream_fragment
    \/ stream_end
    \/ stream_fail
    \/ append_assistant
    \/ InterruptNewChat
    \/ InterruptWidget

Spec == Init /\ [][Next]_vars

\* ------------------------------------- the reference normalizer on its own

\* Any raw reference of either shape is handed to format_reference.
InitNormalize ==
    /\ InitState
    /\ pc = "format_reference"
    /\ ref \in {Some(r) : r \in RawRefs}
    /\ normalized = None

\* Line 168: format_reference(ref)
call_format_reference ==
    /\ pc = "format_reference"
    /\ normalized' = Some(format_reference(ref[1]))
    /\ pc' = "formatted"
    /\ UNCHANGED <<state_vars, env_vars, local_vars, ghost_vars, ref>>

NextNormalize == call_format_reference

SpecNormalize == InitNormalize /\ [][NextNormalize]_vars

\* ----------------------------------------------------------------- claims

\* The step stops the run under way and starts another one.
RunAbandoned == pc \in InterruptPoints /\ pc' \in {"new_chat", "sidebar"}

\* C1: create_new_chat ends with an empty history and with no active chat and
\* no active session, and the selection is what it was before the call.
C1_ResetClearsBoth ==
    [][pc = "new_chat" =>
         /\ messages' = <<>>
         /\ active_chat' = None
         /\ active_session' = None
         /\ selected_datasets' = selected_datasets]_vars

\* A reset has just run in a session that had created a chat, with a
\* selection in place.
C1_Witness ==
    /\ pc = "sidebar"
    /\ button
    /\ messages = <<>>
    /\ active_chat = None
    /\ active_session = None
    /\ chats # {}
    /\ selected_datasets # <<>>

\* C2 (as stated): within one conversation at most one chat and one session
\* are created, between runs every chat has its session, and every call of
\* process_stream_response gets the same session object, never None.
C2_IdempotentEnsure ==
    /\ nChats <= 1
    /\ nSessions <= 1
    /\ pc \in {"idle", "rerun"} => nChats = nSessions
    /\ None \notin usedSessions
    /\ Cardinality(usedSessions) <= 1

\* C3: the dataset ids of the active chat are the selection at the moment
\* create_chat was called, in every state until the reset.
C3_SelectionSnapshot ==
    active_chat # None => active_chat[1].dataset_ids = snapshot

\* The run is over, a chat is active and the selection is no longer the one
\* the chat was created with.
C3_Witness ==
    /\ pc = "idle"
    /\ active_chat # None
    /\ active_chat[1].dataset_ids = <<"kb1", "kb2">>
    /\ selected_datasets = <<"kb2">>

\* C4: every step other than create_new_chat leaves the old history as a
\* prefix of the new one.
C4_AppendOnly ==
    [][pc = "new_chat" \/ IsPrefix(messages, messages')]_vars

\* A history that holds a turn whose chat creation failed (a user turn
\* followed by a user turn) and the answer of a failed stream.
C4_Witness ==
    /\ Len(messages) >= 3
    /\ \E i \in 1..(Len(messages) - 1) :
         messages[i].role = "user" /\ messages[i + 1].role = "user"
    /\ \E i \in 1..Len(messages) :
         messages[i].content = error_text("ConnectionError")

\* C5: a prompt submitted with an empty selection or without a client issues
\* no create_chat, create_session or ask, leaves the active chat and session
\* alone, appends the assistant notice and ends the run (a run that a widget
\* event stops before the gate is served is not a submission carried out).
C5_GateRejection ==
    [][(pc = "gate" /\ (~rag_object \/ selected_datasets = <<>>)
                    /\ ~RunAbandoned) =>
         /\ messages' = Append(messages,
                               [role |-> "assistant", content |-> NoticeText])
         /\ active_chat' = active_chat
         /\ active_session' = active_session
         /\ runCalls = {}
         /\ runCalls' = {}
         /\ pc' = "idle"]_vars

\* A rejected prompt in a conversation that has an active chat and session.
C5_Witness ==
    /\ pc = "idle"
    /\ selected_datasets = <<>>
    /\ active_chat # None
    /\ active_session # None
    /\ runCalls = {}
    /\ Len(messages) >= 4
    /\ messages[Len(messages)] = notice_message
    /\ messages[Len(messages) - 1].role = "user"

\* C6 (as stated): a run issues create_chat, create_session or ask only if
\* its knowledge-base listing succeeded.
C6_GateClosedWhenUnreachable ==
    (pc \notin {"idle", "rerun"} /\ runCalls # {}) => reachable

\* C7 (as stated): after the sidebar of a run in which the backend was not
\* reached, the selection is empty.
C7_SelectionCleared ==
    (pc \in {"main", "gate"} /\ ~reachable) => selected_datasets = <<>>

\* C8: when the stream ends without error after at least one snapshot, the
\* text returned is the content of the last snapshot received.
C8_LastSnapshotWins ==
    (pc = "append" /\ ~stream_failed /\ received # <<>>) =>
        full_response = received[Len(received)]

\* A stream whose last snapshot is shorter than the one before has ended.
C8_Witness ==
    /\ pc = "append"
    /\ ~stream_failed
    /\ Len(received) >= 2
    /\ Len(received[Len(received)]) < Len(received[Len(received) - 1])
    /\ full_response = received[Len(received)]

\* C9 (as stated): when the stream fails after at least one snapshot, no
\* references are returned and the text returned holds the content of the
\* last snapshot together with the error annotation.
C9_PartialAnswerKept ==
    (pc = "append" /\ stream_failed /\ received # <<>>) =>
        /\ references = <<>>
        /\ Contains(full_response, received[Len(received)])
        /\ Contains(full_response, <<"SorryErrorOccurred:">>)

\* C10 (as stated): whatever the shape and whichever fields are missing, the
\* record returned has the four fields, a missing one holding its default.
C10_NormalizerTotal ==
    normalized # None =>
        /\ DOMAIN normalized[1] = FieldNames
        /\ \A k \in FieldNames :
             normalized[1][k] = IF k \in DOMAIN ref[1].fields
                                THEN ref[1].fields[k]
                                ELSE FieldDefault(k)

C12_EmptyOrActive ==
    pc \in {"idle", "rerun"} => (active_session # None <=> messages # <<>>)

\* C12 (amended): an active session implies a history that is not empty.
C12_ActiveImpliesHistory ==
    active_session # None => messages # <<>>

\* Between runs, a conversation with a session and an answered turn.
C12_Witness ==
    /\ pc = "rerun"
    /\ active_session # None
    /\ Len(messages) >= 2
    /\ messages[Len(messages)].role = "assistant"

\* C14: an assistant turn either has no reference key or a reference list
\* with at least one entry; the notice of a gate rejection and the text of a
\* failed stream come without the key.
C14_NonEmptyReferences ==
    \A i \in 1..Len(messages) :
        messages[i].role = "assistant" =>
            /\ "reference" \in DOMAIN messages[i] => messages[i].reference # <<>>
            /\ messages[i].content \in
                   {NoticeText} \cup {error_text(e) : e \in StreamErrors}
                   \cup {error_text("AttributeError")}
               => "reference" \notin DOMAIN messages[i]

\* A history with an answer that carries references and an answer of a
\* stream that carried none.
C14_Witness ==
    /\ \E i \in 1..Len(messages) :
         /\ messages[i].role = "assistant"
         /\ "reference" \in DOMAIN messages[i]
         /\ Len(messages[i].reference) >= 1
    /\ \E i \in 1..Len(messages) :
         /\ messages[i].role = "assistant"
         /\ messages[i].content \in Contents
         /\ "reference" \notin DOMAIN messages[i]

\* C15 (as stated): between runs the active chat is set exactly when the
\* active session is, and process_stream_response never gets None.
C15_ChatSessionPair ==
    /\ pc \in {"idle", "rerun"} => (active_chat # None <=> active_session # None)
    /\ pc = "ask" => session # None

\* C16 (as stated): a run that carries a prompt and ends by itself has
\* appended the user turn and then one assistant turn.
C16_EveryPromptAnswered ==
    [][(pc \in {"gate", "create_session", "append"} /\ pc' \in {"idle", "rerun"}) =>
         /\ messages[Len(messages)] = user_message(prompt)
         /\ Len(messages') = Len(messages) + 1
         /\ messages'[Len(messages')].role = "assistant"]_vars

\* C13: a create_chat that fails leaves the active chat and the active
\* session None; a chat becomes active only in a step that calls create_chat,
\* so nothing stale is reused, and a prompt that passes the gate with no
\* active chat calls create_chat, with a name drawn anew from
\* generate_unique_name.
C13_RetryAfterFailedCreate ==
    [][/\ (pc = "gate" /\ "create_chat" \in runCalls' /\ pc' = "idle") =>
              active_chat' = None /\ active_session' = None
       /\ (active_chat = None /\ active_chat' # None) =>
              /\ pc = "gate"
              /\ "create_chat" \in runCalls'
              /\ active_chat'[1].name \in generate_unique_name("Chat")
              /\ active_chat'[1].name \notin chats
       /\ (pc = "gate" /\ rag_object /\ selected_datasets # <<>>
                       /\ active_chat = None /\ ~RunAbandoned) =>
              "create_chat" \in runCalls']_vars

\* A create_chat was refused for a duplicated name in a session that had
\* created a chat before; no chat and no session are active.
C13_Witness ==
    /\ pc = "idle"
    /\ error_shown = "duplicate"
    /\ runCalls = {"create_chat"}
    /\ active_chat = None
    /\ active_session = None
    /\ messages # <<>>
    /\ messages[Len(messages)].role = "user"

====
